---- MODULE Spec2Model ----
(***************************************************************************)
(* The subsystem lifecycle registry of engine/src/core/systems_manager.c:  *)
(* the slot table, the linear allocator behind it, registration, the two   *)
(* boot passes, the update pass and the shutdown pass.                     *)
(***************************************************************************)
EXTENDS Integers, Sequences, FiniteSets, TLC

\* ------------------------------------------------------------------ bounds

\* Largest number of render views the application configuration declares.
MaxViews == 2

\* ------------------------------------------------------ system type indices

K_SYSTEM_TYPE_MEMORY == 0
K_SYSTEM_TYPE_CONSOLE == 1
K_SYSTEM_TYPE_KVAR == 2
K_SYSTEM_TYPE_EVENT == 3
K_SYSTEM_TYPE_LOGGING == 4
K_SYSTEM_TYPE_INPUT == 5
K_SYSTEM_TYPE_PLATFORM == 6
K_SYSTEM_TYPE_RESOURCE == 7
K_SYSTEM_TYPE_SHADER == 8
K_SYSTEM_TYPE_RENDERER == 9
K_SYSTEM_TYPE_JOB == 10
K_SYSTEM_TYPE_TEXTURE == 11
K_SYSTEM_TYPE_FONT == 12
K_SYSTEM_TYPE_CAMERA == 13
K_SYSTEM_TYPE_RENDER_VIEW == 14
K_SYSTEM_TYPE_MATERIAL == 15
K_SYSTEM_TYPE_GEOMETRY == 16
\* Number of slots of the table that the update pass walks.
K_SYSTEM_TYPE_MAX_COUNT == 17

Types == 0 .. (K_SYSTEM_TYPE_MAX_COUNT - 1)

\* ------------------------------------------------------------- C values

\* The null function pointer (a literal 0 passed as a callback).
NULLFN == "0"

\* Pointers: a block of arena number `arena` at byte offset `off`.
\* Arena 0 is no arena: NULL.  Arena -1 is an indeterminate (wild) pointer.
NULL == [arena |-> 0, off |-> 0]

WILD == [arena |-> -1, off |-> 0]

\* What an uninitialized `k_system sys` on the stack may hold in the fields
\* that systems_manager_register does not assign (state, state_size).
Indeterminate == { [state |-> NULL, state_size |-> 0], [state |-> WILD, state_size |-> 7] }

\* A zeroed slot, as the slot table is at process start.
EmptySlot == [initialize |-> NULLFN, shutdown |-> NULLFN, update |-> NULLFN, state |-> NULL, state_size |-> 0]

\* Work-type flags of the job system, a mask being a set of flags.
JOB_TYPE_GENERAL == "general"

JOB_TYPE_RESOURCE_LOAD == "resource_load"

JOB_TYPE_GPU_RESOURCE == "gpu_resource"

\* ------------------------------------------------------- linear allocator

\* MEBIBYTES(64), the total size of the systems allocator.
ArenaCapacity == 67108864

\* linear_allocator_allocate: the block and the cursor after the request.
\* A request that does not fit is reported and yields no block (0), and the
\* cursor stays; an allocator that was never created has nothing to give.
linear_allocator_allocate(arena, allocated, size) ==
    IF arena = 0 \/ allocated + size > ArenaCapacity
    THEN [block |-> NULL, allocated |-> allocated]
    ELSE [block |-> [arena |-> arena, off |-> allocated], allocated |-> allocated + size]

\* ------------------------------------------------------------ call records

\* One external call made by the registry, in the order made.
Call(fn, slot, mem, size, cfg, ret) ==
    [fn |-> fn, slot |-> slot, mem |-> mem, size |-> size, cfg |-> cfg, ret |-> ret]

NoCfg == [name |-> "0", max_job_thread_count |-> 0, type_masks |-> << >>]

Cfg(name) == [name |-> name, max_job_thread_count |-> 0, type_masks |-> << >>]

\* ------------------------------------------------------------ registration

\* The slot systems_manager_register builds in `sys` and stores.
Slot(initialize, shutdown, update, state, state_size) ==
    [initialize |-> initialize, shutdown |-> shutdown, update |-> update,
     state |-> state, state_size |-> state_size]

\* A slip: a failed second call gives the block back to the allocator.
register_with_initialize_rolls_back(st, type, initialize, shutdown, update, config, beh) ==
    LET c1 == Call(initialize, type, NULL, beh.size, config, beh.r1)
    IN  IF ~beh.r1
        THEN [st EXCEPT !.calls = Append(@, c1), !.ok = FALSE]
        ELSE LET a  == linear_allocator_allocate(st.arena, st.allocated, beh.size)
                 ca == Call("linear_allocator_allocate", type, a.block, beh.size, NoCfg, a.block # NULL)
                 c2 == Call(initialize, type, a.block, beh.size2, config, beh.r2)
             IN  IF ~beh.r2
                 THEN [st EXCEPT !.calls = @ \o <<c1, ca, c2>>,
                                 !.ok = FALSE]
                 ELSE [st EXCEPT !.calls = @ \o <<c1, ca, c2>>,
                                 !.allocated = a.allocated,
                                 !.systems[type] = Slot(initialize, shutdown, update, a.block, beh.size2),
                                 !.order = Append(@, type),
                                 !.ok = TRUE]

\* systems_manager_register with an initializer: the sizing call, the
\* allocation, the second call, and the store into the slot.  beh is how
\* the initializer behaves: r1 and size are the result and the size reported
\* by the sizing call, r2 and size2 those of the second call.  The value
\* linear_allocator_allocate returns is passed on without a test.
register_with_initialize(st, type, initialize, shutdown, update, config, beh) ==
    LET c1 == Call(initialize, type, NULL, beh.size, config, beh.r1)
    IN  IF ~beh.r1
        THEN [st EXCEPT !.calls = Append(@, c1), !.ok = FALSE]
        ELSE LET a  == linear_allocator_allocate(st.arena, st.allocated, beh.size)
                 ca == Call("linear_allocator_allocate", type, a.block, beh.size, NoCfg, a.block # NULL)
                 c2 == Call(initialize, type, a.block, beh.size2, config, beh.r2)
             IN  IF ~beh.r2
                 THEN [st EXCEPT !.calls = @ \o <<c1, ca, c2>>,
                                 !.allocated = a.allocated,
                                 !.ok = FALSE]
                 ELSE [st EXCEPT !.calls = @ \o <<c1, ca, c2>>,
                                 !.allocated = a.allocated,
                                 !.systems[type] = Slot(initialize, shutdown, update, a.block, beh.size2),
                                 !.order = Append(@, type),
                                 !.ok = TRUE]

\* A slip: the test of the type is missing, so any type registers without
\* an initializer.
register_without_initialize_any_type(st, type, shutdown, update, junk) ==
    [st EXCEPT !.systems[type] = Slot(NULLFN, shutdown, update, junk.state, junk.state_size),
               !.order = Append(@, type),
               !.ok = TRUE]

\* systems_manager_register without an initializer: only the memory system
\* may do so, and its slot takes the indeterminate state and state_size of
\* the local `sys`, here junk.
register_without_initialize(st, type, shutdown, update, junk) ==
    IF type # K_SYSTEM_TYPE_MEMORY
    THEN [st EXCEPT !.ok = FALSE]
    ELSE [st EXCEPT !.systems[type] = Slot(NULLFN, shutdown, update, junk.state, junk.state_size),
                    !.order = Append(@, type),
                    !.ok = TRUE]

\* systems_manager_register.  st is the registry state with the calls made
\* so far; the result is the state after the call, ok its return value.
systems_manager_register(st, type, initialize, shutdown, update, config, beh, junk) ==
    IF initialize # NULLFN
    THEN register_with_initialize(st, type, initialize, shutdown, update, config, beh)
    ELSE register_without_initialize(st, type, shutdown, update, junk)

\* ------------------------------------------------------------ environment

\* The sizes a subsystem's initializer may report for its state block.
StateSizes == { 4096, 8388608 }

\* What platform_get_processor_count may report.
ProcessorCounts == { 0, 1, 2, 3, 4, 8, 17 }

\* The initializers the two boot passes register, in the order of the passes.
KnownInitializers ==
    << "console_initialize", "kvar_initialize", "event_system_initialize", "logging_initialize",
       "input_system_initialize", "platform_system_startup", "resource_system_initialize",
       "shader_system_initialize", "renderer_system_initialize", "job_system_initialize",
       "texture_system_initialize", "font_system_initialize", "camera_system_initialize",
       "render_view_system_initialize", "material_system_initialize", "geometry_system_initialize" >>

\* How initializer fn behaves in environment env: env names the initializer
\* that fails (if any) and on which of its two calls, and the size every
\* initializer reports.
Behaviour(env, fn) ==
    [ r1 |-> ~(env.failFn = fn /\ env.failCall = 1),
      size |-> env.size,
      r2 |-> ~(env.failFn = fn /\ env.failCall = 2),
      size2 |-> env.size ]

\* One registration step of a pass.
Step(type, initialize, shutdown, update, config) ==
    [type |-> type, initialize |-> initialize, shutdown |-> shutdown, update |-> update, config |-> config]

\* A slip: the `return false` is missing, so a failed registration is only
\* logged and the run goes on.
RECURSIVE RegisterSteps_goes_on(_, _, _)
RegisterSteps_goes_on(st, steps, env) ==
    IF steps = << >>
    THEN [st EXCEPT !.ok = TRUE]
    ELSE LET s == Head(steps)
             r == systems_manager_register(st, s.type, s.initialize, s.shutdown, s.update,
                                           s.config, Behaviour(env, s.initialize), env.junk)
         IN  RegisterSteps_goes_on(r, Tail(steps), env)

\* A run of `if (!systems_manager_register(...)) return false;` statements:
\* the steps are registered in order and the first failure ends the run.
RECURSIVE RegisterSteps(_, _, _)
RegisterSteps(st, steps, env) ==
    IF steps = << >>
    THEN [st EXCEPT !.ok = TRUE]
    ELSE LET s == Head(steps)
             r == systems_manager_register(st, s.type, s.initialize, s.shutdown, s.update,
                                           s.config, Behaviour(env, s.initialize), env.junk)
         IN  IF ~r.ok THEN r ELSE RegisterSteps(r, Tail(steps), env)

\* ------------------------------------------------------------ pre-boot pass

\* The registrations of the pre-boot pass that precede the job system.
PreBootSteps ==
    << Step(K_SYSTEM_TYPE_MEMORY, NULLFN, "memory_system_shutdown", NULLFN, NoCfg),
       Step(K_SYSTEM_TYPE_CONSOLE, "console_initialize", "console_shutdown", NULLFN, NoCfg),
       Step(K_SYSTEM_TYPE_KVAR, "kvar_initialize", "kvar_shutdown", NULLFN, NoCfg),
       Step(K_SYSTEM_TYPE_EVENT, "event_system_initialize", "event_system_shutdown", NULLFN, NoCfg),
       Step(K_SYSTEM_TYPE_LOGGING, "logging_initialize", "logging_shutdown", NULLFN, NoCfg),
       Step(K_SYSTEM_TYPE_INPUT, "input_system_initialize", "input_system_shutdown", NULLFN, NoCfg),
       Step(K_SYSTEM_TYPE_PLATFORM, "platform_system_startup", "platform_system_shutdown", NULLFN, Cfg("plat_config")),
       Step(K_SYSTEM_TYPE_RESOURCE, "resource_system_initialize", "resource_system_shutdown", NULLFN, Cfg("resource_sys_config")),
       Step(K_SYSTEM_TYPE_SHADER, "shader_system_initialize", "shader_system_shutdown", NULLFN, Cfg("shader_sys_config")),
       Step(K_SYSTEM_TYPE_RENDERER, "renderer_system_initialize", "renderer_system_shutdown", NULLFN, Cfg("renderer_sys_config")) >>

\* const i32 max_thread_count = 15, also the length of job_thread_types.
max_thread_count == 15

\* A slip: the cap at max_thread_count is missing.
thread_count_uncapped(procs) == procs - 1

\* thread_count as passed to the job system, from the processor count.
thread_count(procs) ==
    IF procs - 1 > max_thread_count THEN max_thread_count ELSE procs - 1

\* job_thread_types as passed to the job system.
job_thread_types(renderer_multithreaded) ==
    LET general == [i \in 1 .. 15 |-> {JOB_TYPE_GENERAL}]
    IN  IF max_thread_count = 1 \/ ~renderer_multithreaded
        THEN [general EXCEPT ![1] = @ \cup {JOB_TYPE_GPU_RESOURCE, JOB_TYPE_RESOURCE_LOAD}]
        ELSE IF max_thread_count = 2
             THEN [general EXCEPT ![1] = @ \cup {JOB_TYPE_GPU_RESOURCE},
                                  ![2] = @ \cup {JOB_TYPE_RESOURCE_LOAD}]
             ELSE [general EXCEPT ![1] = {JOB_TYPE_GPU_RESOURCE},
                                  ![2] = {JOB_TYPE_RESOURCE_LOAD}]

\* job_sys_config as filled in by the pre-boot pass.
job_sys_config(procs, renderer_multithreaded) ==
    [ name |-> "job_sys_config",
      max_job_thread_count |-> thread_count(procs),
      type_masks |-> job_thread_types(renderer_multithreaded) ]

\* A slip: the thread count is tested against 0 instead of 1.
register_known_systems_pre_boot_off_by_one(st, env) ==
    LET r == RegisterSteps(st, PreBootSteps, env)
    IN  IF ~r.ok
        THEN r
        ELSE IF env.procs - 1 < 0
             THEN [r EXCEPT !.ok = FALSE]
             ELSE RegisterSteps(r,
                      << Step(K_SYSTEM_TYPE_JOB, "job_system_initialize", "job_system_shutdown",
                              "job_system_update", job_sys_config(env.procs, env.mt)) >>,
                      env)

\* register_known_systems_pre_boot.
register_known_systems_pre_boot(st, env) ==
    LET r == RegisterSteps(st, PreBootSteps, env)
    IN  IF ~r.ok
        THEN r
        ELSE IF env.procs - 1 < 1
             THEN [r EXCEPT !.ok = FALSE]
             ELSE RegisterSteps(r,
                      << Step(K_SYSTEM_TYPE_JOB, "job_system_initialize", "job_system_shutdown",
                              "job_system_update", job_sys_config(env.procs, env.mt)) >>,
                      env)

\* systems_manager_initialize: a fresh arena, then the pre-boot pass.
systems_manager_initialize(st, env) ==
    register_known_systems_pre_boot([st EXCEPT !.arena = @ + 1, !.allocated = 0], env)

\* ----------------------------------------------------------- post-boot pass

\* A slip: the camera system is registered under the font system's type.
PostBootSteps_camera_as_font ==
    << Step(K_SYSTEM_TYPE_TEXTURE, "texture_system_initialize", "texture_system_shutdown", NULLFN, Cfg("texture_sys_config")),
       Step(K_SYSTEM_TYPE_FONT, "font_system_initialize", "font_system_shutdown", NULLFN, Cfg("font_config")),
       Step(K_SYSTEM_TYPE_FONT, "camera_system_initialize", "camera_system_shutdown", NULLFN, Cfg("camera_sys_config")),
       Step(K_SYSTEM_TYPE_RENDER_VIEW, "render_view_system_initialize", "render_view_system_shutdown", NULLFN, Cfg("render_view_sys_config")) >>

\* The registrations of the post-boot pass before the views are created.
PostBootSteps ==
    << Step(K_SYSTEM_TYPE_TEXTURE, "texture_system_initialize", "texture_system_shutdown", NULLFN, Cfg("texture_sys_config")),
       Step(K_SYSTEM_TYPE_FONT, "font_system_initialize", "font_system_shutdown", NULLFN, Cfg("font_config")),
       Step(K_SYSTEM_TYPE_CAMERA, "camera_system_initialize", "camera_system_shutdown", NULLFN, Cfg("camera_sys_config")),
       Step(K_SYSTEM_TYPE_RENDER_VIEW, "render_view_system_initialize", "render_view_system_shutdown", NULLFN, Cfg("render_view_sys_config")) >>

\* The registrations of the post-boot pass after the views are created.
PostViewSteps ==
    << Step(K_SYSTEM_TYPE_MATERIAL, "material_system_initialize", "material_system_shutdown", NULLFN, Cfg("material_sys_config")),
       Step(K_SYSTEM_TYPE_GEOMETRY, "geometry_system_initialize", "geometry_system_shutdown", NULLFN, Cfg("geometry_sys_config")) >>

\* The view-creation loop: views v .. view_count are created in order and the
\* first failing creation ends the loop with failure.
RECURSIVE CreateViews(_, _, _)
CreateViews(st, v, env) ==
    IF v > env.nviews
    THEN [st EXCEPT !.ok = TRUE]
    ELSE LET good == env.viewFail # v
             c == Call("render_view_system_create", v, NULL, 0, Cfg("render_view_config"), good)
         IN  IF ~good
             THEN [st EXCEPT !.calls = Append(@, c), !.ok = FALSE]
             ELSE CreateViews([st EXCEPT !.calls = Append(@, c)], v + 1, env)

\* A slip: the result of the view loop is not looked at.
register_known_systems_post_boot_ignores_views(st, env) ==
    LET r == RegisterSteps(st, PostBootSteps, env)
    IN  IF ~r.ok
        THEN r
        ELSE RegisterSteps(CreateViews(r, 1, env), PostViewSteps, env)

\* register_known_systems_post_boot.
register_known_systems_post_boot(st, env) ==
    LET r == RegisterSteps(st, PostBootSteps, env)
    IN  IF ~r.ok
        THEN r
        ELSE LET w == CreateViews(r, 1, env)
             IN  IF ~w.ok THEN w ELSE RegisterSteps(w, PostViewSteps, env)

\* systems_manager_post_boot_initialize.
systems_manager_post_boot_initialize(st, env) ==
    register_known_systems_post_boot(st, env)

\* ---------------------------------------------------------------- update

\* The loop of systems_manager_update from slot i on: every slot with an
\* updater is called; the slots in `failing` return false, which is logged.
RECURSIVE UpdateFrom(_, _, _, _)
UpdateFrom(st, i, delta_time, failing) ==
    IF i >= K_SYSTEM_TYPE_MAX_COUNT
    THEN st
    ELSE LET s == st.systems[i]
         IN  IF s.update # NULLFN
             THEN UpdateFrom([st EXCEPT !.calls = Append(@, Call(s.update, i, s.state, delta_time, NoCfg, i \notin failing))],
                             i + 1, delta_time, failing)
             ELSE UpdateFrom(st, i + 1, delta_time, failing)

\* A slip: the loop starts at index 1 and never visits slot 0.
systems_manager_update_from_one(st, delta_time, failing) ==
    [UpdateFrom(st, 1, delta_time, failing) EXCEPT !.ok = TRUE]

\* A slip: the pass ends at the first updater that fails and reports it.
systems_manager_update_stops(st, delta_time, failing) ==
    LET r == UpdateFrom(st, 0, delta_time, failing)
        bad == { i \in 1 .. Len(r.calls) : ~r.calls[i].ret }
    IN  IF bad = {}
        THEN [r EXCEPT !.ok = TRUE]
        ELSE LET k == CHOOSE i \in bad : \A j \in bad : i <= j
             IN  [r EXCEPT !.calls = SubSeq(@, 1, k), !.ok = FALSE]

\* systems_manager_update.
systems_manager_update(st, delta_time, failing) ==
    [UpdateFrom(st, 0, delta_time, failing) EXCEPT !.ok = TRUE]

\* --------------------------------------------------------------- shutdown

\* A slip: the list is the registration order of the two passes, reversed.
ShutdownOrder_reverse_of_boot ==
    << K_SYSTEM_TYPE_GEOMETRY, K_SYSTEM_TYPE_MATERIAL, K_SYSTEM_TYPE_RENDER_VIEW, K_SYSTEM_TYPE_CAMERA,
       K_SYSTEM_TYPE_FONT, K_SYSTEM_TYPE_TEXTURE, K_SYSTEM_TYPE_JOB, K_SYSTEM_TYPE_RENDERER,
       K_SYSTEM_TYPE_SHADER, K_SYSTEM_TYPE_RESOURCE, K_SYSTEM_TYPE_PLATFORM, K_SYSTEM_TYPE_INPUT,
       K_SYSTEM_TYPE_LOGGING, K_SYSTEM_TYPE_EVENT, K_SYSTEM_TYPE_KVAR, K_SYSTEM_TYPE_CONSOLE,
       K_SYSTEM_TYPE_MEMORY >>

\* A slip: the line of the texture system is missing from the list.
ShutdownOrder_without_texture ==
    << K_SYSTEM_TYPE_CAMERA, K_SYSTEM_TYPE_FONT,
       K_SYSTEM_TYPE_RENDER_VIEW, K_SYSTEM_TYPE_GEOMETRY, K_SYSTEM_TYPE_MATERIAL,
       K_SYSTEM_TYPE_JOB, K_SYSTEM_TYPE_SHADER, K_SYSTEM_TYPE_RENDERER,
       K_SYSTEM_TYPE_RESOURCE, K_SYSTEM_TYPE_PLATFORM, K_SYSTEM_TYPE_INPUT, K_SYSTEM_TYPE_LOGGING,
       K_SYSTEM_TYPE_EVENT, K_SYSTEM_TYPE_KVAR, K_SYSTEM_TYPE_CONSOLE,
       K_SYSTEM_TYPE_MEMORY >>

\* A slip: the memory system is shut down before the console.
ShutdownOrder_memory_early ==
    << K_SYSTEM_TYPE_CAMERA, K_SYSTEM_TYPE_FONT,
       K_SYSTEM_TYPE_RENDER_VIEW, K_SYSTEM_TYPE_GEOMETRY, K_SYSTEM_TYPE_MATERIAL, K_SYSTEM_TYPE_TEXTURE,
       K_SYSTEM_TYPE_JOB, K_SYSTEM_TYPE_SHADER, K_SYSTEM_TYPE_RENDERER,
       K_SYSTEM_TYPE_RESOURCE, K_SYSTEM_TYPE_PLATFORM, K_SYSTEM_TYPE_INPUT, K_SYSTEM_TYPE_LOGGING,
       K_SYSTEM_TYPE_EVENT, K_SYSTEM_TYPE_KVAR, K_SYSTEM_TYPE_MEMORY,
       K_SYSTEM_TYPE_CONSOLE >>

\* The slots shutdown_known_systems calls, in the order it calls them.
ShutdownOrder ==
    << K_SYSTEM_TYPE_CAMERA, K_SYSTEM_TYPE_FONT,
       K_SYSTEM_TYPE_RENDER_VIEW, K_SYSTEM_TYPE_GEOMETRY, K_SYSTEM_TYPE_MATERIAL, K_SYSTEM_TYPE_TEXTURE,
       K_SYSTEM_TYPE_JOB, K_SYSTEM_TYPE_SHADER, K_SYSTEM_TYPE_RENDERER,
       K_SYSTEM_TYPE_RESOURCE, K_SYSTEM_TYPE_PLATFORM, K_SYSTEM_TYPE_INPUT, K_SYSTEM_TYPE_LOGGING,
       K_SYSTEM_TYPE_EVENT, K_SYSTEM_TYPE_KVAR, K_SYSTEM_TYPE_CONSOLE,
       K_SYSTEM_TYPE_MEMORY >>

\* What a call through a null function pointer may do: the process faults,
\* or the call has no effect and execution goes on.
NullCallOutcomes == { "fault", "none" }

\* The calls of shutdown_known_systems from position k of the list on.
\* A slot whose shutdown is null makes the call undefined: outcome ub.
RECURSIVE ShutdownFrom(_, _, _)
ShutdownFrom(st, k, ub) ==
    IF k > Len(ShutdownOrder)
    THEN st
    ELSE LET t == ShutdownOrder[k]
             s == st.systems[t]
         IN  IF s.shutdown = NULLFN
             THEN IF ub = "fault"
                  THEN [st EXCEPT !.alive = FALSE]
                  ELSE ShutdownFrom(st, k + 1, ub)
             ELSE ShutdownFrom([st EXCEPT !.calls = Append(@, Call(s.shutdown, t, s.state, 0, NoCfg, TRUE))],
                               k + 1, ub)

\* A slip: the first line of the list, the camera system's, is missing.
shutdown_known_systems_without_camera(st, ub) == ShutdownFrom(st, 2, ub)

\* shutdown_known_systems.
shutdown_known_systems(st, ub) == ShutdownFrom(st, 1, ub)

\* A slip: the pass also zeroes the state fields of every slot.
systems_manager_shutdown_clears(st, ub) ==
    [shutdown_known_systems(st, ub) EXCEPT
        !.ok = TRUE,
        !.systems = [t \in Types |-> [@[t] EXCEPT !.state = NULL, !.state_size = 0]]]

\* systems_manager_shutdown.
systems_manager_shutdown(st, ub) == [shutdown_known_systems(st, ub) EXCEPT !.ok = TRUE]

\* ------------------------------------------------------------------ state

VARIABLES
    systems,    \* state->systems: the slot table, one slot per type
    arena,      \* number of arenas created so far; 0: allocator not created
    allocated,  \* the allocation cursor of state->systems_allocator
    order,      \* history: the types whose slot was written, in order
    passes,     \* history: the boot passes that have run, in order, each with
                \* the processor count it saw and the value it returned
    downs,      \* history: the number of shutdown passes started
    regs,       \* history: the number of direct registration calls
    alive,      \* FALSE once the process has faulted
    op,         \* the last operation called, with its inputs
    calls,      \* the external calls the last operation made, in order
    ok          \* the value the last operation returned

vars == << systems, arena, allocated, order, passes, downs, regs, alive, op, calls, ok >>

\* The registry as an operation finds it.
Cur ==
    [ systems |-> systems, arena |-> arena, allocated |-> allocated, order |-> order,
      alive |-> alive, calls |-> << >>, ok |-> TRUE ]

\* The registry as an operation leaves it.
Becomes(r) ==
    /\ systems' = r.systems
    /\ arena' = r.arena
    /\ allocated' = r.allocated
    /\ order' = r.order
    /\ alive' = r.alive
    /\ calls' = r.calls
    /\ ok' = r.ok

\* Process start: the registry state is zeroed.
Init ==
    /\ systems = [t \in Types |-> EmptySlot]
    /\ arena = 0
    /\ allocated = 0
    /\ order = << >>
    /\ passes = << >>
    /\ downs = 0
    /\ regs = 0
    /\ alive = TRUE
    /\ op = [name |-> "none"]
    /\ calls = << >>
    /\ ok = TRUE

\* ----------------------------------------------------------------- inputs

\* Largest number of shutdown passes in one behaviour.
MaxShutdowns == 2

\* Largest number of direct registration calls in one behaviour.
MaxRegisters == 2

\* The initializers of the pre-boot pass.
PreBootInitializers == { KnownInitializers[i] : i \in 1 .. 10 }

\* The initializers of the post-boot pass.
PostBootInitializers == { KnownInitializers[i] : i \in 11 .. 16 }

\* The environments of the pre-boot pass.
PreBootEnvs ==
    { [failFn |-> f, failCall |-> c, size |-> s, procs |-> p, mt |-> m,
       nviews |-> 0, viewFail |-> 0, junk |-> j] :
        f \in PreBootInitializers \cup {"none"}, c \in 1 .. 2, s \in StateSizes,
        p \in ProcessorCounts, m \in BOOLEAN, j \in Indeterminate }

\* The environments of the post-boot pass: nviews views are configured and
\* the creation of view viewFail fails (0: none does).
PostBootEnvs ==
    { [failFn |-> f, failCall |-> c, size |-> s, procs |-> 0, mt |-> FALSE,
       nviews |-> n, viewFail |-> v, junk |-> [state |-> NULL, state_size |-> 0]] :
        f \in PostBootInitializers \cup {"none"}, c \in 1 .. 2, s \in StateSizes,
        n \in 0 .. MaxViews, v \in 0 .. MaxViews }

\* The elapsed times handed to the update pass.
DeltaTimes == { 0, 16 }

\* The types a caller registers directly.
RegisterTypes == { K_SYSTEM_TYPE_MEMORY, K_SYSTEM_TYPE_CONSOLE, K_SYSTEM_TYPE_JOB }

\* How the initializer of a directly registered system may behave.
\* The sizing call fails; or it reports a size and the second call fails; or
\* both succeed and the second call reports a size again.
RegisterBehaviours ==
    { [r1 |-> FALSE, size |-> 4096, r2 |-> FALSE, size2 |-> 4096] }
    \cup { [r1 |-> TRUE, size |-> s, r2 |-> FALSE, size2 |-> s] : s \in { 4096, 41943040 } }
    \cup { [r1 |-> TRUE, size |-> s, r2 |-> TRUE, size2 |-> s2] :
              s \in { 4096, 41943040 }, s2 \in { 4096, 41943040 } }

\* ---------------------------------------------------------------- actions

\* The engine goes on only while the process has not faulted and no boot pass
\* has returned failure: a failed pass aborts startup.
Running == alive /\ \A i \in 1 .. Len(passes) : passes[i].ok

\* The engine calls systems_manager_initialize, once.
Initialize ==
    /\ Running
    /\ arena = 0
    /\ \E env \in PreBootEnvs :
        /\ env.failFn = "none" => env.failCall = 1
        /\ Becomes(systems_manager_initialize(Cur, env))
        /\ op' = [name |-> "initialize", env |-> env]
        /\ passes' = Append(passes, [pass |-> "pre", procs |-> env.procs, ok |-> ok'])
    /\ UNCHANGED << downs, regs >>

\* The engine calls systems_manager_post_boot_initialize, once.
PostBootInitialize ==
    /\ Running
    /\ \A i \in 1 .. Len(passes) : passes[i].pass # "post"
    /\ \E env \in PostBootEnvs :
        /\ env.failFn = "none" => env.failCall = 1
        /\ env.viewFail <= env.nviews
        /\ Becomes(systems_manager_post_boot_initialize(Cur, env))
        /\ op' = [name |-> "post_boot_initialize", env |-> env]
        /\ passes' = Append(passes, [pass |-> "post", procs |-> 0, ok |-> ok'])
    /\ UNCHANGED << downs, regs >>

\* The engine calls systems_manager_update for a frame.
Update ==
    /\ Running
    /\ \E dt \in DeltaTimes, failing \in SUBSET { t \in Types : systems[t].update # NULLFN } :
        /\ Becomes(systems_manager_update(Cur, dt, failing))
        /\ op' = [name |-> "update", delta_time |-> dt, failing |-> failing]
    /\ UNCHANGED << passes, downs, regs >>

\* The engine calls systems_manager_shutdown.
Shutdown ==
    /\ Running
    /\ downs < MaxShutdowns
    /\ \E ub \in NullCallOutcomes :
        /\ Becomes(systems_manager_shutdown(Cur, ub))
        /\ op' = [name |-> "shutdown", ub |-> ub]
    /\ downs' = downs + 1
    /\ UNCHANGED << passes, regs >>

\* A caller calls systems_manager_register.
Register ==
    /\ Running
    /\ regs < MaxRegisters
    /\ \E type \in RegisterTypes, initialize \in { NULLFN, "user_initialize" },
          update \in { NULLFN, "user_update" }, beh \in RegisterBehaviours, junk \in Indeterminate :
        \* inputs the call does not read are held fixed
        /\ initialize = NULLFN => beh.r1 = FALSE
        /\ (initialize # NULLFN \/ type # K_SYSTEM_TYPE_MEMORY) => junk.state = NULL
        /\ Becomes(systems_manager_register(Cur, type, initialize, "user_shutdown", update, Cfg("user_config"), beh, junk))
        /\ op' = [name |-> "register", type |-> type, initialize |-> initialize, update |-> update,
                  beh |-> beh, junk |-> junk]
    /\ regs' = regs + 1
    /\ UNCHANGED << passes, downs >>

\* The life of the registry as the engine drives it.
Next == Initialize \/ PostBootInitialize \/ Update \/ Shutdown

Spec == Init /\ [][Next]_vars

\* The registry right after systems_manager_initialize created its allocator
\* (line 30), with only direct calls of the public operations after that.
InitRegister ==
    /\ systems = [t \in Types |-> EmptySlot]
    /\ arena = 1
    /\ allocated = 0
    /\ order = << >>
    /\ passes = << >>
    /\ downs = 0
    /\ regs = 0
    /\ alive = TRUE
    /\ op = [name |-> "none"]
    /\ calls = << >>
    /\ ok = TRUE

NextRegister == Register \/ Update

SpecRegister == InitRegister /\ [][NextRegister]_vars

\* The same registry with systems_manager_shutdown among the direct calls.
NextDirect == Register \/ Update \/ Shutdown

SpecDirect == InitRegister /\ [][NextDirect]_vars

\* ------------------------------------------------------------ properties

\* Type t has had its slot written.
Written(t) == \E i \in 1 .. Len(order) : order[i] = t

\* The first position of t in seq.
PosIn(seq, t) == CHOOSE i \in 1 .. Len(seq) : seq[i] = t /\ \A j \in 1 .. (i - 1) : seq[j] # t

\* The slots of the calls the last operation made, in order.
CallSlots == [i \in 1 .. Len(calls) |-> calls[i].slot]

\* The pre-boot pass and then the post-boot pass have run, and both succeeded.
FullBoot ==
    /\ Len(passes) = 2
    /\ passes[1].pass = "pre" /\ passes[1].ok
    /\ passes[2].pass = "post" /\ passes[2].ok

\* The shutdown sequence as the specification lists it: camera, font,
\* render-view, geometry, material, texture, job-scheduling, shader, renderer,
\* resource-loading, platform, input, logging, events,
\* configuration-variables, console, memory.
ListedShutdownSequence ==
    << K_SYSTEM_TYPE_CAMERA, K_SYSTEM_TYPE_FONT, K_SYSTEM_TYPE_RENDER_VIEW, K_SYSTEM_TYPE_GEOMETRY,
       K_SYSTEM_TYPE_MATERIAL, K_SYSTEM_TYPE_TEXTURE, K_SYSTEM_TYPE_JOB, K_SYSTEM_TYPE_SHADER,
       K_SYSTEM_TYPE_RENDERER, K_SYSTEM_TYPE_RESOURCE, K_SYSTEM_TYPE_PLATFORM, K_SYSTEM_TYPE_INPUT,
       K_SYSTEM_TYPE_LOGGING, K_SYSTEM_TYPE_EVENT, K_SYSTEM_TYPE_KVAR, K_SYSTEM_TYPE_CONSOLE,
       K_SYSTEM_TYPE_MEMORY >>

\* A step that is one direct call of systems_manager_register.
RegisterStep == op'.name = "register" /\ regs' = regs + 1

\* C1: a call of systems_manager_register for a type whose slot is already
\* written returns failure and leaves the whole slot table as it was.
C1_SecondRegistrationRejected ==
    [][ (RegisterStep /\ Written(op'.type)) => (ok' = FALSE /\ systems' = systems) ]_vars

\* The masks of the specification's table for n threads, thread i (from 1).
TableMask(n, mt, i) ==
    IF n = 1 \/ ~mt
    THEN IF i = 1 THEN {JOB_TYPE_GENERAL, JOB_TYPE_GPU_RESOURCE, JOB_TYPE_RESOURCE_LOAD} ELSE {JOB_TYPE_GENERAL}
    ELSE IF n = 2
         THEN IF i = 1 THEN {JOB_TYPE_GENERAL, JOB_TYPE_GPU_RESOURCE} ELSE {JOB_TYPE_GENERAL, JOB_TYPE_RESOURCE_LOAD}
         ELSE IF i = 1 THEN {JOB_TYPE_GPU_RESOURCE}
              ELSE IF i = 2 THEN {JOB_TYPE_RESOURCE_LOAD} ELSE {JOB_TYPE_GENERAL}

\* The capped thread count of the specification: min(processor count - 1, 15).
CappedThreads(procs) == IF procs - 1 < 15 THEN procs - 1 ELSE 15

\* C2: the masks handed to the job system are, for each of the n =
\* min(processor count - 1, 15) threads, those of the specification's table
\* keyed on n and on the renderer's multithreading capability.
C2_MasksFollowTable ==
    op.name = "initialize" =>
        \A k \in 1 .. Len(calls) :
            calls[k].fn = "job_system_initialize" =>
                \A i \in 1 .. CappedThreads(op.env.procs) :
                    calls[k].cfg.type_masks[i] = TableMask(CappedThreads(op.env.procs), op.env.mt, i)

\* C3, as claimed: after the pre-boot and the post-boot pass, shutdown calls
\* the subsystems in the exact reverse of the order they were registered in.
C3_ExactReverseOfRegistration ==
    (op.name = "shutdown" /\ FullBoot) =>
        \A a \in Types, b \in Types :
            PosIn(order, a) < PosIn(order, b) => PosIn(CallSlots, b) < PosIn(CallSlots, a)

\* The pairs (a, b), a registered before b, that shutdown does not reverse.
NotReversed ==
    { << K_SYSTEM_TYPE_SHADER, K_SYSTEM_TYPE_RENDERER >> }
    \cup ( { K_SYSTEM_TYPE_FONT, K_SYSTEM_TYPE_CAMERA } \X
           { K_SYSTEM_TYPE_RENDER_VIEW, K_SYSTEM_TYPE_MATERIAL, K_SYSTEM_TYPE_GEOMETRY } )
    \cup ( { K_SYSTEM_TYPE_RENDER_VIEW } \X { K_SYSTEM_TYPE_MATERIAL, K_SYSTEM_TYPE_GEOMETRY } )

\* C3, amended: after the pre-boot and the post-boot pass, shutdown calls b
\* before a for every a registered before b, except for shader and renderer
\* and for font, camera, render-view against the later of render-view,
\* material, geometry: of those pairs the one registered first is shut down
\* first.
C3_ReverseExceptListedPairs ==
    (op.name = "shutdown" /\ FullBoot) =>
        \A a \in Types, b \in Types :
            PosIn(order, a) < PosIn(order, b) =>
                IF << a, b >> \in NotReversed
                THEN PosIn(CallSlots, a) < PosIn(CallSlots, b)
                ELSE PosIn(CallSlots, b) < PosIn(CallSlots, a)

\* A shutdown pass after both passes succeeded, pre-boot first.
C3_Witness ==
    op.name = "shutdown" /\ FullBoot /\ Len(calls) = 17 /\ Len(order) = 17

\* C4: with every slot populated, shutdown calls the slots in the listed
\* sequence, memory last, whatever order the slots were written in.
C4_FixedShutdownSequence ==
    (op.name = "shutdown" /\ \A t \in Types : systems[t].shutdown # NULLFN) =>
        /\ CallSlots = ListedShutdownSequence
        /\ calls[Len(calls)].fn = "memory_system_shutdown"
        /\ \A i \in 1 .. Len(calls) : calls[i].fn = systems[calls[i].slot].shutdown

\* A shutdown pass over a table the post-boot pass wrote before the pre-boot
\* pass did.
C4_Witness ==
    /\ op.name = "shutdown"
    /\ Len(passes) = 2 /\ passes[1].pass = "post"
    /\ order[1] = K_SYSTEM_TYPE_TEXTURE
    /\ Len(calls) = 17

\* C5: in an update pass a failing updater does not keep the updater of any
\* later slot from being called, and the pass returns success.
C5_UpdateGoesOnAfterFailure ==
    op.name = "update" =>
        /\ ok
        /\ \A i \in 1 .. Len(calls) :
            ~calls[i].ret =>
                \A t \in Types :
                    (t > calls[i].slot /\ systems[t].update # NULLFN) =>
                        \E j \in (i + 1) .. Len(calls) : calls[j].slot = t

\* An update pass whose first updater failed and that called a later one.
C5_Witness ==
    op.name = "update" /\ Len(calls) >= 2 /\ ~calls[1].ret /\ calls[2].slot > calls[1].slot

\* C6: registering without an initializer fails for every type but memory,
\* leaving the slot table and the cursor unchanged; for memory it succeeds
\* and nothing is allocated.
C6_NullInitialize ==
    [][ (RegisterStep /\ op'.initialize = NULLFN) =>
            IF op'.type # K_SYSTEM_TYPE_MEMORY
            THEN ok' = FALSE /\ systems' = systems /\ allocated' = allocated
            ELSE ok' = TRUE /\ allocated' = allocated /\ calls' = << >>
                 /\ systems'[K_SYSTEM_TYPE_MEMORY].shutdown = "user_shutdown" ]_vars

\* A rejected registration of a non-memory type without an initializer, made
\* when a slot was already populated.
C6_Witness ==
    /\ op.name = "register" /\ op.initialize = NULLFN /\ op.type # K_SYSTEM_TYPE_MEMORY
    /\ ~ok
    /\ Len(order) > 0

\* C7: a successful registration with an initializer makes exactly these
\* calls: initialize with a null buffer, an allocation of the size it
\* reported that yields a block, initialize with that block and the same
\* config.
C7_TwoCallProtocol ==
    (op.name = "register" /\ ok /\ op.initialize # NULLFN) =>
        /\ Len(calls) = 3
        /\ calls[1].fn = op.initialize /\ calls[1].mem = NULL
        /\ calls[2].fn = "linear_allocator_allocate" /\ calls[2].size = calls[1].size
        /\ calls[2].ret /\ calls[2].mem # NULL
        /\ calls[3].fn = op.initialize /\ calls[3].mem = calls[2].mem
        /\ calls[3].cfg = calls[1].cfg

\* C8: over registrations the cursor never decreases and never passes the
\* capacity, and a registration whose size request exceeds what is left
\* returns failure and writes no slot.
C8_ArenaNeverOverrun ==
    [][ RegisterStep =>
            /\ allocated' >= allocated
            /\ allocated' <= ArenaCapacity
            /\ (op'.initialize # NULLFN /\ op'.beh.r1 /\ allocated + op'.beh.size > ArenaCapacity)
                   => (ok' = FALSE /\ systems' = systems) ]_vars

\* C9: with a processor count of 1 or less the pre-boot pass returns failure,
\* the job system's initializer is not called and its slot stays empty.
C9_OneProcessorIsFatal ==
    (op.name = "initialize" /\ op.env.procs <= 1) =>
        /\ ~ok
        /\ \A k \in 1 .. Len(calls) : calls[k].fn # "job_system_initialize"
        /\ systems[K_SYSTEM_TYPE_JOB] = EmptySlot

\* A pre-boot pass that saw one processor after registering the renderer.
C9_Witness ==
    op.name = "initialize" /\ op.env.procs = 1 /\ Written(K_SYSTEM_TYPE_RENDERER) /\ ~ok

\* The pre-boot pass saw 8 processors; it and the post-boot pass succeeded.
BootedWith8 == FullBoot /\ passes[1].procs = 8

\* The end-to-end scenario with 8 processors and nothing failing, shutdown
\* making n calls: both passes succeed, an update pass calls exactly the
\* slots that have an updater, and shutdown calls n slots, none twice, in the
\* order of the listed sequence.
Scenario8(n) ==
    /\ (op.name = "initialize" /\ op.env.procs = 8 /\ op.env.failFn = "none") => ok
    /\ (/\ op.name = "post_boot_initialize" /\ op.env.failFn = "none" /\ op.env.viewFail = 0
        /\ Len(passes) = 2 /\ passes[1].ok /\ passes[1].procs = 8)
           => (ok /\ FullBoot /\ \A t \in Types : Written(t))
    /\ (op.name = "update" /\ BootedWith8) =>
           /\ { calls[i].slot : i \in 1 .. Len(calls) } = { t \in Types : systems[t].update # NULLFN }
           /\ K_SYSTEM_TYPE_JOB \in { calls[i].slot : i \in 1 .. Len(calls) }
    /\ (op.name = "shutdown" /\ BootedWith8) =>
           /\ Len(calls) = n
           /\ \A i \in 1 .. Len(calls), j \in 1 .. Len(calls) :
                  i < j => PosIn(ListedShutdownSequence, calls[i].slot) < PosIn(ListedShutdownSequence, calls[j].slot)

\* C10, as claimed: in the scenario shutdown calls sixteen slots.
C10_SixteenSlots == Scenario8(16)

\* C10, amended: in the scenario shutdown calls all seventeen slots of the
\* listed sequence, in that order, none twice.
C10_SeventeenSlots == Scenario8(17) /\ ((op.name = "shutdown" /\ BootedWith8) => CallSlots = ListedShutdownSequence)

\* The shutdown pass of the scenario.
C10_Witness ==
    op.name = "shutdown" /\ BootedWith8 /\ Len(calls) = 17 /\ downs = 1

\* s is an initial part of t.
IsPrefix(s, t) == Len(s) <= Len(t) /\ SubSeq(t, 1, Len(s)) = s

\* The types whose slot the last boot pass wrote, in order.  A pass runs
\* second only after the first succeeded: after 6 writes of the post-boot
\* pass or 11 of the pre-boot pass.
LastPassWrites ==
    IF Len(passes) = 2
    THEN SubSeq(order, (IF passes[1].pass = "post" THEN 7 ELSE 12), Len(order))
    ELSE order

\* The position of initializer fn in the order of the two passes; 0 for a
\* call that is no initializer.
InitPos(fn) ==
    IF \E i \in 1 .. Len(KnownInitializers) : KnownInitializers[i] = fn
    THEN CHOOSE i \in 1 .. Len(KnownInitializers) : KnownInitializers[i] = fn
    ELSE 0

\* The pre-boot order as the specification lists it.
ListedPreBootOrder ==
    << K_SYSTEM_TYPE_MEMORY, K_SYSTEM_TYPE_CONSOLE, K_SYSTEM_TYPE_KVAR, K_SYSTEM_TYPE_EVENT,
       K_SYSTEM_TYPE_LOGGING, K_SYSTEM_TYPE_INPUT, K_SYSTEM_TYPE_PLATFORM, K_SYSTEM_TYPE_RESOURCE,
       K_SYSTEM_TYPE_SHADER, K_SYSTEM_TYPE_RENDERER, K_SYSTEM_TYPE_JOB >>

\* C11: the pre-boot pass registers memory, console, configuration-variables,
\* events, logging, input, platform, resource-loading, shader, renderer,
\* job-scheduling in that order and stops at the first failure: a failing
\* initializer call is the last call of the pass, the pass returns failure,
\* and it returns success only when all eleven slots were written.
C11_PreBootOrderAndStop ==
    op.name = "initialize" =>
        /\ IsPrefix(LastPassWrites, ListedPreBootOrder)
        /\ ok <=> (LastPassWrites = ListedPreBootOrder)
        /\ \A i \in 1 .. Len(calls), j \in 1 .. Len(calls) :
               (i < j /\ InitPos(calls[i].fn) > 0 /\ InitPos(calls[j].fn) > 0)
                   => InitPos(calls[i].fn) <= InitPos(calls[j].fn)
        /\ \A i \in 1 .. Len(calls) :
               (InitPos(calls[i].fn) > 0 /\ ~calls[i].ret) => (~ok /\ i = Len(calls))
        /\ \A i \in 1 .. Len(calls) :
               InitPos(calls[i].fn) > 0 =>
                   \/ \E k \in 1 .. Len(LastPassWrites) : LastPassWrites[k] = calls[i].slot
                   \/ (~ok /\ ~calls[Len(calls)].ret /\ calls[Len(calls)].slot = calls[i].slot)

\* A pre-boot pass that the platform system's initializer ended: the six
\* systems before it are registered, none after it.
C11_Witness ==
    /\ op.name = "initialize" /\ ~ok
    /\ op.env.failFn = "platform_system_startup"
    /\ LastPassWrites = SubSeq(ListedPreBootOrder, 1, 6)

\* The post-boot order as the specification lists it.
ListedPostBootOrder ==
    << K_SYSTEM_TYPE_TEXTURE, K_SYSTEM_TYPE_FONT, K_SYSTEM_TYPE_CAMERA, K_SYSTEM_TYPE_RENDER_VIEW,
       K_SYSTEM_TYPE_MATERIAL, K_SYSTEM_TYPE_GEOMETRY >>

\* The positions in calls of the view creations.
ViewCalls == { i \in 1 .. Len(calls) : calls[i].fn = "render_view_system_create" }

\* C12: the post-boot pass registers texture, font, camera, render-view, then
\* creates the configured views in list order, then registers material and
\* geometry; a failing view creation ends the pass with failure at once: no
\* later view is created and material and geometry are neither initialized
\* nor registered.
C12_PostBootOrderAndViews ==
    op.name = "post_boot_initialize" =>
        /\ IsPrefix(LastPassWrites, ListedPostBootOrder)
        /\ ok <=> (LastPassWrites = ListedPostBootOrder)
        /\ ok => Cardinality(ViewCalls) = op.env.nviews
        /\ \A i \in ViewCalls :
               /\ calls[i].slot = Cardinality({ j \in ViewCalls : j <= i })
               /\ \A j \in 1 .. Len(calls) :
                      (InitPos(calls[j].fn) > 0 /\ InitPos(calls[j].fn) <= InitPos("render_view_system_initialize"))
                          => j < i
               /\ \A j \in 1 .. Len(calls) :
                      InitPos(calls[j].fn) > InitPos("render_view_system_initialize") => i < j
               /\ ~calls[i].ret =>
                      /\ ~ok
                      /\ i = Len(calls)
                      /\ LastPassWrites = SubSeq(ListedPostBootOrder, 1, 4)

\* A post-boot pass with two views configured whose first view creation
\* failed.
C12_Witness ==
    /\ op.name = "post_boot_initialize" /\ ~ok
    /\ op.env.nviews = 2 /\ op.env.viewFail = 1
    /\ Cardinality(ViewCalls) = 1

\* C13: once a slot is populated, no operation other than a registration of
\* that same type changes its state pointer or its state_size: not an update
\* pass, not a shutdown pass, not a registration of another type, whether it
\* succeeds or fails.
C13_StateFieldsStable ==
    [][ \A t \in Types :
            (Written(t) /\ ~(RegisterStep /\ op'.type = t))
                => /\ systems'[t].state = systems[t].state
                   /\ systems'[t].state_size = systems[t].state_size ]_vars

\* Two types were registered, the first with a state block, and a shutdown
\* pass has since invoked a shutdown callback.
C13_Witness ==
    /\ op.name = "shutdown" /\ Len(calls) >= 1
    /\ Len(order) = 2 /\ order[1] # order[2]
    /\ systems[order[1]].state # NULL /\ systems[order[1]].state_size > 0

\* A step that is one call of systems_manager_shutdown.
ShutdownStep == op'.name = "shutdown" /\ downs' = downs + 1

\* C14: each subsystem's shutdown callback is invoked at most once; after
\* both boot passes succeeded, a call of systems_manager_shutdown that follows
\* another invokes no shutdown callback the earlier call already invoked.
C14_ShutdownAtMostOnce ==
    [][ (FullBoot /\ op.name = "shutdown" /\ ShutdownStep)
            => \A i \in 1 .. Len(calls), j \in 1 .. Len(calls') :
                   calls'[j].slot # calls[i].slot ]_vars

\* C15: the pre-boot pass followed by the post-boot pass, every step
\* succeeding, writes each type's slot exactly once: seventeen writes, no type
\* written twice, and every one of the seventeen types populated.
C15_EachSlotWrittenOnce ==
    FullBoot =>
        /\ Len(order) = K_SYSTEM_TYPE_MAX_COUNT
        /\ \A i \in 1 .. Len(order), j \in 1 .. Len(order) : i # j => order[i] # order[j]
        /\ \A t \in Types : Written(t) /\ systems[t].shutdown # NULLFN

\* The post-boot pass has just succeeded after a successful pre-boot pass.
C15_Witness ==
    /\ FullBoot
    /\ op.name = "post_boot_initialize" /\ ok
    /\ Len(order) > Len(ListedPreBootOrder)

\* C16: when either initialize call of a registration fails,
\* systems_manager_register returns failure and leaves the slot table as it
\* was; a failed sizing call leaves the allocator's cursor where it was, and
\* after a failed second call the bytes allocated for it stay consumed.
C16_FailedRegistration ==
    [][ (RegisterStep /\ op'.initialize # NULLFN /\ (~op'.beh.r1 \/ ~op'.beh.r2))
            => /\ ~ok'
               /\ systems' = systems
               /\ order' = order
               /\ ~op'.beh.r1 => allocated' = allocated
               /\ (op'.beh.r1 /\ allocated + op'.beh.size <= ArenaCapacity)
                      => allocated' = allocated + op'.beh.size ]_vars

\* One system is registered, and a registration after it failed on its
\* second initialize call with its block taken from the arena.
C16_Witness ==
    /\ op.name = "register" /\ op.initialize # NULLFN
    /\ op.beh.r1 /\ ~op.beh.r2 /\ ~ok
    /\ Len(order) = 1 /\ systems[order[1]].initialize # NULLFN
    /\ allocated = systems[order[1]].state_size + op.beh.size

\* The positions in calls of the job system's initializer calls.
JobInitCalls == { k \in 1 .. Len(calls) : calls[k].fn = "job_system_initialize" }

\* C17: for a processor count P of 2 or more the thread count handed to the
\* job system is min(P - 1, 15): at least 1, at most 15, and at most the
\* number of entries of the mask array handed over with it.
C17_ThreadCountCapped ==
    (op.name = "initialize" /\ op.env.procs >= 2) =>
        /\ ok => JobInitCalls # {}
        /\ \A k \in JobInitCalls :
               /\ calls[k].cfg.max_job_thread_count = CappedThreads(op.env.procs)
               /\ calls[k].cfg.max_job_thread_count >= 1
               /\ calls[k].cfg.max_job_thread_count <= 15
               /\ calls[k].cfg.max_job_thread_count <= Len(calls[k].cfg.type_masks)

\* A pre-boot pass that saw 17 processors and initialized the job system.
C17_Witness ==
    /\ op.name = "initialize" /\ op.env.procs = 17 /\ ok
    /\ JobInitCalls # {}

\* C18: one update pass visits the slots in increasing type-index order and
\* invokes the update callback of exactly the slots that have one, once each,
\* with the slot's own state and the delta_time given to the pass.
C18_UpdateVisitsEachUpdaterOnce ==
    op.name = "update" =>
        /\ \A i \in 1 .. Len(calls), j \in 1 .. Len(calls) :
               i < j => calls[i].slot < calls[j].slot
        /\ { calls[i].slot : i \in 1 .. Len(calls) } = { t \in Types : systems[t].update # NULLFN }
        /\ \A i \in 1 .. Len(calls) :
               /\ calls[i].fn = systems[calls[i].slot].update
               /\ calls[i].mem = systems[calls[i].slot].state
               /\ calls[i].size = op.delta_time

\* An update pass over two updaters that were registered in decreasing
\* type-index order, with a nonzero delta_time.
C18_Witness ==
    /\ op.name = "update" /\ op.delta_time > 0
    /\ Len(calls) = 2
    /\ Len(order) = 2 /\ order[1] > order[2]

\* C19: for a processor count P of 2 or more and either renderer capability,
\* each of the three work types is in the mask of at least one of the
\* min(P - 1, 15) threads the job system is told to start.
C19_EveryWorkTypeHasAThread ==
    (op.name = "initialize" /\ op.env.procs >= 2) =>
        \A k \in JobInitCalls :
            \A w \in { JOB_TYPE_GENERAL, JOB_TYPE_GPU_RESOURCE, JOB_TYPE_RESOURCE_LOAD } :
                \E i \in 1 .. CappedThreads(op.env.procs) : w \in calls[k].cfg.type_masks[i]

\* Both boot passes have run, in either order, and both succeeded.
BothPassesSucceeded == Len(passes) = 2 /\ passes[1].ok /\ passes[2].ok

\* The types the two boot passes register.
TypesOfThePasses ==
    { PreBootSteps[i].type : i \in 1 .. Len(PreBootSteps) }
        \cup { K_SYSTEM_TYPE_JOB }
        \cup { PostBootSteps[i].type : i \in 1 .. Len(PostBootSteps) }
        \cup { PostViewSteps[i].type : i \in 1 .. Len(PostViewSteps) }

\* C20: the types whose shutdown the shutdown pass invokes are exactly the
\* types the two boot passes register; after both passes succeeded a shutdown
\* pass calls through no null pointer, every callback it invokes is the
\* non-null one of a registered slot, and every registered type is invoked.
C20_ShutdownCoversRegistered ==
    /\ { ShutdownOrder[i] : i \in 1 .. Len(ShutdownOrder) } = TypesOfThePasses
    /\ (op.name = "shutdown" /\ BothPassesSucceeded) =>
           /\ alive
           /\ { calls[i].slot : i \in 1 .. Len(calls) } = { order[i] : i \in 1 .. Len(order) }
           /\ \A i \in 1 .. Len(calls) :
                  /\ calls[i].fn # NULLFN
                  /\ calls[i].fn = systems[calls[i].slot].shutdown

\* A shutdown pass after the post-boot pass and then the pre-boot pass
\* succeeded, the null-call outcome being a fault had there been one.
C20_Witness ==
    /\ op.name = "shutdown" /\ op.ub = "fault"
    /\ BothPassesSucceeded /\ passes[1].pass = "post"
    /\ Len(calls) = K_SYSTEM_TYPE_MAX_COUNT

====
